---- MODULE Spec2Model ----
(***************************************************************************)
(* ChalicePlugin (chalice_spec/chalice_legacy.py): an APISpec plugin that  *)
(* replaces route and register_blueprint on a Chalice application so that  *)
(* every route declaration is also recorded in the APISpec object.         *)
(*                                                                         *)
(* Python values are modelled as follows.  A str is a TLA+ string when it  *)
(* is only concatenated or compared (paths, prefixes) and a sequence of    *)
(* one-character strings when its letters matter (HTTP method names, which *)
(* the code lower-cases).  A dict is a function on the set of its keys.    *)
(* Python's None is the definition None, a string no path or prefix        *)
(* equals, where a str is expected, and the record NoDocs where a Docs     *)
(* object is expected.  A call that raises is a result whose outcome is    *)
(* "raised".  Installing the plugin twice on one application is not        *)
(* modelled: APISpec.__init__ calls init_spec once.                        *)
(***************************************************************************)
EXTENDS Integers, Sequences, FiniteSets, TLC

\* Number of route / blueprint-route declarations the host application makes.
MaxCalls == 2
\* Number of register_blueprint calls the host application makes.
MaxRegistrations == 1

None == "<None>"
NoDocs == [none |-> TRUE]

Range(s) == {s[i] : i \in 1..Len(s)}

-----------------------------------------------------------------------------
(* str.lower(), letter by letter.                                          *)

UpperCase == <<"A","B","C","D","E","F","G","H","I","J","K","L","M",
               "N","O","P","Q","R","S","T","U","V","W","X","Y","Z">>
LowerCase == <<"a","b","c","d","e","f","g","h","i","j","k","l","m",
               "n","o","p","q","r","s","t","u","v","w","x","y","z">>

\* The lower-case letter of every upper-case letter.
ToLower ==
    [c \in Range(UpperCase) |->
        LowerCase[CHOOSE i \in 1..Len(UpperCase) : UpperCase[i] = c]]

\* A character that is no upper-case letter stays as it is.
lower_char(c) == IF c \in DOMAIN ToLower THEN ToLower[c] ELSE c

lower(s) == [i \in 1..Len(s) |-> lower_char(s[i])]

\* The method names the code names, as str values.
get     == <<"g","e","t">>
post    == <<"p","o","s","t">>
put     == <<"p","u","t">>
patch   == <<"p","a","t","c","h">>
delete  == <<"d","e","l","e","t","e">>
head    == <<"h","e","a","d">>
options == <<"o","p","t","i","o","n","s">>

-----------------------------------------------------------------------------
(* chalice_spec.docs: Docs and Operation.                                   *)

Operation(response, request) == [response |-> response, request |-> request]

Docs(ops, summary) == [ops |-> ops, summary |-> summary]

\* Docs.build_operations(spec, methods): one spec operation per declared
\* method, taken from the descriptor's entry for that method; a declared
\* method without an entry is a conversion error.
build_operations(docs, methods) ==
    IF \A i \in 1..Len(methods) : methods[i] \in DOMAIN docs.ops
    THEN [outcome |-> "returned",
          operations |-> [m \in Range(methods) |->
                            [requestBody |-> docs.ops[m].request,
                             responses   |-> docs.ops[m].response]]]
    ELSE [outcome |-> "raised", operations |-> <<>>]

-----------------------------------------------------------------------------
(* The body of route(path, **kwargs), statement by statement.               *)

\* docs = kwargs.pop("docs", None): the value ...
pop_docs_value(kwargs) ==
    IF "docs" \in DOMAIN kwargs THEN kwargs["docs"] ELSE NoDocs

\* ... and the kwargs left behind.
pop_docs_rest_drops(kwargs) == kwargs

pop_docs_rest(kwargs) == [k \in DOMAIN kwargs \ {"docs"} |-> kwargs[k]]

\* methods = [method.lower() for method in kwargs.get("methods", ["get"])]
lowered_keeps_case(kwargs) ==
    IF "methods" \in DOMAIN kwargs THEN kwargs["methods"] ELSE <<get>>

lowered_methods(kwargs) ==
    LET given == IF "methods" \in DOMAIN kwargs THEN kwargs["methods"] ELSE <<get>>
    IN  [i \in 1..Len(given) |-> lower(given[i])]

\* request=(None if method in ["get", "delete", "head", "options"] else BaseModel)
default_request_no_head(method) ==
    IF method \in {get, delete, options} THEN None ELSE "BaseModel"

default_request(method) ==
    IF method \in {get, delete, head, options} THEN None ELSE "BaseModel"

\* Docs(**{method: Operation(response=BaseModel, request=...) for method in methods})
default_docs(methods) ==
    Docs([m \in Range(methods) |-> Operation("BaseModel", default_request(m))], None)

\* if docs is None and self._generate_default_docs: docs = Docs(...)
effective_docs_always(docs, methods, generate_default_docs) ==
    IF docs = NoDocs THEN default_docs(methods) ELSE docs

effective_docs(docs, methods, generate_default_docs) ==
    IF docs = NoDocs /\ generate_default_docs THEN default_docs(methods) ELSE docs

\* if docs: ... (a Docs object is truthy, None is not)
documented(docs) == docs /= NoDocs

\* spec.path(path, operations=operations, summary=docs.summary): the entry
\* the APISpec object receives.
path_entry(path, operations, summary) ==
    [path |-> path, operations |-> operations, summary |-> summary]

\* Chalice's own route(path, **kwargs): registers the view and returns the
\* decorator, or raises; `behaviour` is which of the two it does this time.
original_route(path, kwargs, behaviour) ==
    [outcome |-> behaviour,
     result  |-> IF behaviour = "returned"
                 THEN [type |-> "decorator", of |-> path]
                 ELSE [type |-> "ChaliceError", of |-> path]]

\* Lines 67-71 in order: the documentation calls, then the delegation.
call_order_delegates_first(doc_calls, delegation) == delegation \o doc_calls

call_order(doc_calls, delegation) == doc_calls \o delegation

\* Line 71 is not inside a try: what spec.path stored stays stored whatever
\* the original does.
committed_rolls_back(entries, outcome) ==
    IF outcome = "raised" THEN <<>> ELSE entries

committed(entries, outcome) == entries

\* return original_route(path, **kwargs)
returned_value_dropped(result) == [type |-> "NoneType", of |-> result.of]

returned_value(result) == result

\* route(path, **kwargs), lines 42-71.  The result lists the calls made in
\* order (events), the descriptor in use at line 67 (docs), the entries the
\* APISpec object received (entries), what the original function was called
\* with and answered (forwarded) and how the call ended.
route(path, kwargs, generate_default_docs, behaviour) ==
    LET given   == pop_docs_value(kwargs)
        rest    == pop_docs_rest(kwargs)
        methods == lowered_methods(rest)
        docs    == effective_docs(given, methods, generate_default_docs)
        built   == build_operations(docs, methods)
    IN  IF documented(docs) /\ built.outcome = "raised"
        THEN [docs      |-> docs,
              events    |-> <<"build_operations">>,
              entries   |-> <<>>,
              forwarded |-> <<>>,
              outcome   |-> "raised",
              result    |-> [type |-> "ConversionError", of |-> path]]
        ELSE LET entries == IF documented(docs)
                            THEN <<path_entry(path, built.operations, docs.summary)>>
                            ELSE <<>>
                 doc_calls == IF documented(docs)
                              THEN <<"build_operations", "spec.path">>
                              ELSE <<>>
                 orig == original_route(path, rest, behaviour)
             IN  [docs      |-> docs,
                  events    |-> call_order(doc_calls, <<"original_route">>),
                  entries   |-> committed(entries, orig.outcome),
                  forwarded |-> <<[to |-> "original_route", path |-> path,
                                   kwargs |-> rest, outcome |-> orig.outcome,
                                   result |-> orig.result]>>,
                  outcome   |-> orig.outcome,
                  result    |-> IF orig.outcome = "returned"
                                THEN returned_value(orig.result)
                                ELSE orig.result]

\* blueprint_route(prefix_url) returns inner_route; inner_route(path, **kwargs)
\* is route(prefix_url + path, **kwargs), lines 73-77.  None + str raises
\* TypeError before route is entered.
prefixed_ignores_prefix(prefix_url, path) == path

prefixed(prefix_url, path) == prefix_url \o path

inner_route(prefix_url, path, kwargs, generate_default_docs, behaviour) ==
    IF prefix_url = None
    THEN [docs      |-> NoDocs,
          events    |-> <<>>,
          entries   |-> <<>>,
          forwarded |-> <<>>,
          outcome   |-> "raised",
          result    |-> [type |-> "TypeError", of |-> path]]
    ELSE route(prefixed(prefix_url, path), kwargs, generate_default_docs, behaviour)

\* chalice.Blueprint.route(path, **kwargs), the function a blueprint has
\* before register_blueprint replaces it: it records the declaration on the
\* blueprint itself.
blueprint_original_route(path, kwargs, behaviour) ==
    LET result == IF behaviour = "returned"
                  THEN [type |-> "decorator", of |-> path]
                  ELSE [type |-> "ChaliceError", of |-> path]
    IN  [docs      |-> NoDocs,
         events    |-> <<"blueprint_original_route">>,
         entries   |-> <<>>,
         forwarded |-> <<[to |-> "blueprint_original_route", path |-> path,
                          kwargs |-> kwargs, outcome |-> behaviour,
                          result |-> result]>>,
         outcome   |-> behaviour,
         result    |-> result]

\* Calling chalice_app.route before the plugin replaced it.
direct_route(path, kwargs, behaviour) ==
    LET orig == original_route(path, kwargs, behaviour)
    IN  [docs      |-> NoDocs,
         events    |-> <<"original_route">>,
         entries   |-> <<>>,
         forwarded |-> <<[to |-> "original_route", path |-> path,
                          kwargs |-> kwargs, outcome |-> orig.outcome,
                          result |-> orig.result]>>,
         outcome   |-> orig.outcome,
         result    |-> orig.result]

-----------------------------------------------------------------------------
(* What the host application declares.                                      *)

Model == "Model"

\* Docs(post=Operation(response=Model, request=Model))
DocsPost == Docs([m \in {post} |-> Operation(Model, Model)], None)

\* Docs(post=Operation(response=Model, request=Model),
\*      get=Operation(response=Model), summary="items")
DocsPostGet ==
    Docs([m \in {post, get} |->
            IF m = post THEN Operation(Model, Model) ELSE Operation(Model, None)],
         "items")

kw(methods) == [k \in {"methods"} |-> methods]

kw_docs(methods, docs) ==
    [k \in {"methods", "docs"} |-> IF k = "methods" THEN methods ELSE docs]

kw_cors(methods) ==
    [k \in {"methods", "cors"} |-> IF k = "methods" THEN methods ELSE <<"*">>]

\* The keyword options of the declarations: with and without methods, in
\* mixed letter case, with and without a descriptor, with another option.
KwargsSet ==
    { [k \in {} |-> <<>>],
      kw(<<<<"P","O","S","T">>, <<"G","e","t">>>>),
      kw(<<post, get>>),
      kw_docs(<<post>>, DocsPost),
      kw_docs(<<<<"P","O","S","T">>, <<"G","e","t">>>>, DocsPostGet),
      kw_docs(<<post, get>>, DocsPostGet),
      kw_docs(<<put>>, DocsPost),
      kw_cors(<<<<"D","E","L","E","T","E">>, <<"H","e","a","d">>, options,
                <<"P","A","T","C","H">>>>) }

\* The keyword options of the declarations made through the blueprint.
BlueprintKwargsSet ==
    { kw(<<post, get>>),
      kw_docs(<<<<"P","O","S","T">>, <<"G","e","t">>>>, DocsPostGet),
      kw_docs(<<put>>, DocsPost),
      kw_cors(<<<<"D","E","L","E","T","E">>, <<"H","e","a","d">>, options,
                <<"P","A","T","C","H">>>>) }

Paths == {"/items"}

\* url_prefix of register_blueprint: omitted (None), empty, or a prefix.
UrlPrefixes == {None, "", "/v1"}

Behaviours == {"returned", "raised"}

-----------------------------------------------------------------------------
(* State.                                                                   *)

VARIABLES
    generate_default_docs,   \* self._generate_default_docs
    spec_options,            \* keys of spec.options
    spec_paths,              \* what spec.path received, in order
    init_spec_result,        \* "not_called", "returned" or "raised"
    app_route,               \* the function chalice_app.route is bound to
    app_register_blueprint,  \* the function chalice_app.register_blueprint is bound to
    blueprint_route_fn,      \* the function blueprint.route is bound to
    routes,                  \* the calls Chalice's own route received
    blueprint_routes,        \* the calls the blueprint's own route received
    registered,              \* how often Chalice's own register_blueprint was called
    calls                    \* the declarations made so far, with their results

vars == <<generate_default_docs, spec_options, spec_paths, init_spec_result,
          app_route, app_register_blueprint, blueprint_route_fn, routes,
          blueprint_routes, registered, calls>>

\* After ChalicePlugin(generate_default_docs) and before APISpec.__init__
\* calls init_spec: the application and the blueprint have their own functions,
\* and the options may or may not carry chalice_app.  The host application
\* makes its declarations once the APISpec object exists.
Init ==
    /\ generate_default_docs \in BOOLEAN
    /\ spec_options \in {{"chalice_app"}, {}}
    /\ spec_paths = <<>>
    /\ init_spec_result = "not_called"
    /\ app_route = "original_route"
    /\ app_register_blueprint = "original_register_blueprint"
    /\ blueprint_route_fn = [fn |-> "blueprint_original_route", prefix_url |-> ""]
    /\ routes = <<>>
    /\ blueprint_routes = <<>>
    /\ registered = 0
    /\ calls = <<>>

\* spec.options.pop("chalice_app"): KeyError when the key is missing.
pop_keeps_key(opts) == opts

pop_chalice_app(opts) == opts \ {"chalice_app"}

\* chalice_app.route = route; chalice_app.register_blueprint = register_blueprint
\* are the last two statements: they run only when the pop succeeded.
patched_early(popped, original, wrapper) == wrapper

patched(popped, original, wrapper) == IF popped THEN wrapper ELSE original

\* init_spec(spec), lines 30-94.
InitSpec ==
    /\ init_spec_result = "not_called"
    /\ LET popped == "chalice_app" \in spec_options
       IN  /\ init_spec_result' = IF popped THEN "returned" ELSE "raised"
           /\ spec_options' = IF popped THEN pop_chalice_app(spec_options)
                              ELSE spec_options
           /\ app_route' = patched(popped, app_route, "route")
           /\ app_register_blueprint' =
                  patched(popped, app_register_blueprint, "register_blueprint")
    /\ UNCHANGED <<generate_default_docs, spec_paths, blueprint_route_fn, routes,
                   blueprint_routes, registered, calls>>

ForwardedTo(r, target) ==
    SelectSeq(r.forwarded, LAMBDA f : f.to = target)

Strip(fs) == [i \in 1..Len(fs) |-> [path |-> fs[i].path, kwargs |-> fs[i].kwargs]]

\* The effects of one declaration on the state.
Apply(fn, prefix_url, path, kwargs, r) ==
    /\ spec_paths' = spec_paths \o r.entries
    /\ routes' = routes \o Strip(ForwardedTo(r, "original_route"))
    /\ blueprint_routes' =
           blueprint_routes \o Strip(ForwardedTo(r, "blueprint_original_route"))
    /\ calls' = Append(calls, [fn |-> fn, prefix_url |-> prefix_url,
                               path |-> path, kwargs |-> kwargs,
                               docs |-> r.docs, events |-> r.events, entries |-> r.entries,
                               forwarded |-> r.forwarded,
                               outcome |-> r.outcome, result |-> r.result])

\* The host application calls chalice_app.route(path, **kwargs).
AppRoute ==
    /\ init_spec_result /= "not_called"
    /\ Len(calls) < MaxCalls
    /\ \E path \in Paths, kwargs \in KwargsSet, behaviour \in Behaviours :
         IF app_route = "route"
         THEN Apply("route", "", path, kwargs,
                    route(path, kwargs, generate_default_docs, behaviour))
         ELSE Apply("original_route", "", path, kwargs,
                    direct_route(path, kwargs, behaviour))
    /\ UNCHANGED <<generate_default_docs, spec_options, init_spec_result, app_route,
                   app_register_blueprint, blueprint_route_fn, registered>>

\* The host application calls blueprint.route(path, **kwargs).
BlueprintRoute ==
    /\ init_spec_result /= "not_called"
    /\ Len(calls) < MaxCalls
    /\ \E path \in Paths, kwargs \in BlueprintKwargsSet, behaviour \in Behaviours :
         IF blueprint_route_fn.fn = "inner_route"
         THEN Apply("inner_route", blueprint_route_fn.prefix_url, path, kwargs,
                    inner_route(blueprint_route_fn.prefix_url, path, kwargs,
                                generate_default_docs, behaviour))
         ELSE Apply("blueprint_original_route", "", path, kwargs,
                    blueprint_original_route(path, kwargs, behaviour))
    /\ UNCHANGED <<generate_default_docs, spec_options, init_spec_result, app_route,
                   app_register_blueprint, blueprint_route_fn, registered>>

\* blueprint.route = blueprint_route(url_prefix), line 90.
blueprint_route(url_prefix) == [fn |-> "inner_route", prefix_url |-> url_prefix]

\* The host application calls chalice_app.register_blueprint(blueprint,
\* url_prefix=...); lines 81-91 when the plugin is installed, Chalice's own
\* function otherwise.  Line 90 replaces blueprint.route, line 91 calls the
\* original register_blueprint.
RegisterBlueprint ==
    /\ init_spec_result /= "not_called"
    /\ registered < MaxRegistrations
    /\ \E url_prefix \in UrlPrefixes :
         /\ blueprint_route_fn' =
                IF app_register_blueprint = "register_blueprint"
                THEN blueprint_route(url_prefix)
                ELSE blueprint_route_fn
         /\ registered' = registered + 1
    /\ UNCHANGED <<generate_default_docs, spec_options, spec_paths, init_spec_result,
                   app_route, app_register_blueprint, routes, blueprint_routes,
                   calls>>

Next ==
    \/ InitSpec
    \/ AppRoute
    \/ BlueprintRoute
    \/ RegisterBlueprint

Spec == Init /\ [][Next]_vars

-----------------------------------------------------------------------------
(* Properties.                                                              *)

\* The declarations that entered route: chalice_app.route after installation,
\* and blueprint.route after registration with a str prefix.
RouteCalls ==
    {i \in 1..Len(calls) :
        \/ calls[i].fn = "route"
        \/ calls[i].fn = "inner_route" /\ calls[i].prefix_url /= None}

\* The path route was called with.
RoutePath(c) == IF c.fn = "route" THEN c.path ELSE c.prefix_url \o c.path

\* The methods the caller declared, as written.
Declared(c) ==
    IF "methods" \in DOMAIN c.kwargs THEN c.kwargs["methods"] ELSE <<get>>

ConversionRaised(c) == c.result.type = "ConversionError"

Count(events, e) == Cardinality({k \in 1..Len(events) : events[k] = e})

\* Every entry the calls added, in call order.
RECURSIVE EntriesOf(_)
EntriesOf(cs) ==
    IF cs = <<>> THEN <<>> ELSE EntriesOf(SubSeq(cs, 1, Len(cs) - 1)) \o cs[Len(cs)].entries

\* C1 as stated: every call of route invokes the original route function
\* exactly once, after the documentation calls of that call.
C1_EveryCallDelegatesOnce ==
    \A i \in RouteCalls :
        LET ev == calls[i].events
        IN  /\ Count(ev, "original_route") = 1
            /\ ev[Len(ev)] = "original_route"

\* C1 amended: a call of route whose descriptor conversion does not raise
\* invokes the original route function exactly once, as its last call, after
\* build_operations and spec.path; a call whose conversion raises does not
\* invoke it.
C1_DelegatesOnceUnlessConversionRaises ==
    \A i \in RouteCalls :
        LET ev == calls[i].events
        IN  IF ConversionRaised(calls[i])
            THEN Count(ev, "original_route") = 0 /\ calls[i].forwarded = <<>>
            ELSE /\ Count(ev, "original_route") = 1
                 /\ ev[Len(ev)] = "original_route"
                 /\ Len(calls[i].forwarded) = 1

C1_Witness ==
    \E i \in RouteCalls :
        calls[i].events = <<"build_operations", "spec.path", "original_route">>

\* C2: whenever route invokes the original route function it passes the path
\* it was called with and the caller's options without the key docs, every
\* other option as the caller wrote it, and the call ends the way the original
\* ended, with the original's value.
C2_ForwardsStrippedOptions ==
    \A i \in RouteCalls : \A k \in 1..Len(calls[i].forwarded) :
        LET c == calls[i]
            f == c.forwarded[k]
        IN  /\ f.to = "original_route"
            /\ f.path = RoutePath(c)
            /\ DOMAIN f.kwargs = DOMAIN c.kwargs \ {"docs"}
            /\ \A key \in DOMAIN f.kwargs : f.kwargs[key] = c.kwargs[key]
            /\ c.outcome = f.outcome
            /\ c.result = f.result

C2_Witness ==
    \E i \in RouteCalls :
        /\ "docs" \in DOMAIN calls[i].kwargs
        /\ calls[i].outcome = "returned"
        /\ Len(calls[i].forwarded) = 1
        /\ calls[i].forwarded[1].kwargs["methods"] = <<<<"P","O","S","T">>, <<"G","e","t">>>>

\* A descriptor exists for the call: given by the caller or synthesized.
HasDescriptor(c) == "docs" \in DOMAIN c.kwargs \/ generate_default_docs

EntryMatches(c) ==
    /\ Len(c.entries) = 1
    /\ c.entries[1].path = RoutePath(c)
    /\ DOMAIN c.entries[1].operations = {lower(m) : m \in Range(Declared(c))}
    /\ c.entries[1].summary = IF "docs" \in DOMAIN c.kwargs
                              THEN c.kwargs["docs"].summary
                              ELSE None

\* C3 as stated: a call of route adds exactly one entry when a descriptor
\* exists and none otherwise.
C3_OneEntryPerDescriptor ==
    /\ spec_paths = EntriesOf(calls)
    /\ \A i \in RouteCalls :
           IF HasDescriptor(calls[i]) THEN EntryMatches(calls[i])
           ELSE calls[i].entries = <<>>

\* C3 amended: a call of route adds exactly one entry (its path, one operation
\* per declared lower-cased method, the descriptor's summary) when a
\* descriptor exists and its conversion does not raise; it adds none when the
\* conversion raises or when no descriptor is given and defaults are disabled.
\* Nothing else reaches the APISpec object.
C3_OneEntryPerConvertedDescriptor ==
    /\ spec_paths = EntriesOf(calls)
    /\ \A i \in RouteCalls :
           IF HasDescriptor(calls[i]) /\ ~ConversionRaised(calls[i])
           THEN EntryMatches(calls[i])
           ELSE calls[i].entries = <<>>

C3_Witness ==
    /\ ~generate_default_docs
    /\ \E i, j \in RouteCalls :
          /\ calls[i].kwargs = kw_docs(<<post>>, DocsPost)
          /\ Len(spec_paths) = 1
          /\ DOMAIN spec_paths[1].operations = {post}
          /\ "docs" \notin DOMAIN calls[j].kwargs
          /\ calls[j].entries = <<>>

\* C4: with defaults enabled and no descriptor given, the descriptor in use
\* has exactly the declared lower-cased methods (get alone when methods is
\* absent); every response is the placeholder, the request is None for get,
\* delete, head and options and the placeholder for every other method.
C4_SynthesizedDescriptor ==
    \A i \in RouteCalls :
        generate_default_docs /\ "docs" \notin DOMAIN calls[i].kwargs =>
            LET d == calls[i].docs
                declared == IF "methods" \in DOMAIN calls[i].kwargs
                            THEN {lower(m) : m \in Range(calls[i].kwargs["methods"])}
                            ELSE {get}
            IN  /\ d /= NoDocs
                /\ DOMAIN d.ops = declared
                /\ \A m \in DOMAIN d.ops :
                      /\ d.ops[m].response /= None
                      /\ d.ops[m].request = None <=> m \in {get, delete, head, options}

C4_Witness ==
    /\ generate_default_docs
    /\ \E i, j \in RouteCalls :
          /\ DOMAIN calls[i].kwargs = {}
          /\ DOMAIN calls[i].docs.ops = {get}
          /\ "docs" \notin DOMAIN calls[j].kwargs
          /\ DOMAIN calls[j].docs.ops = {delete, head, options, patch}
          /\ calls[j].docs.ops[head].request = None
          /\ calls[j].docs.ops[patch].request /= None

\* The declarations made through a blueprint registered with a str prefix.
PrefixedCalls ==
    {i \in 1..Len(calls) :
        calls[i].fn = "inner_route" /\ calls[i].prefix_url /= None}

\* C5 as stated: a route Q declared on a blueprint registered with prefix P
\* reaches the APISpec object as P+Q and the blueprint's original route
\* function as P+Q.
C5_BlueprintOriginalReceivesPrefixedPath ==
    \A i \in PrefixedCalls :
        LET c == calls[i]
        IN  /\ \A k \in 1..Len(c.entries) : c.entries[k].path = c.prefix_url \o c.path
            /\ \A k \in 1..Len(c.forwarded) :
                  /\ c.forwarded[k].to = "blueprint_original_route"
                  /\ c.forwarded[k].path = c.prefix_url \o c.path

\* C5 amended: a route Q declared on a blueprint registered with prefix P
\* reaches the shared APISpec object as P+Q, and the application's original
\* route function receives P+Q; the blueprint's own original route function
\* is not called.
C5_AppOriginalReceivesPrefixedPath ==
    \A i \in PrefixedCalls :
        LET c == calls[i]
        IN  /\ \A k \in 1..Len(c.entries) : c.entries[k].path = c.prefix_url \o c.path
            /\ ~ConversionRaised(c) => Len(c.forwarded) = 1
            /\ HasDescriptor(c) /\ ~ConversionRaised(c) => Len(c.entries) = 1
            /\ \A k \in 1..Len(c.forwarded) :
                  /\ c.forwarded[k].to = "original_route"
                  /\ c.forwarded[k].path = c.prefix_url \o c.path
            /\ \A e \in Range(c.entries) : e \in Range(spec_paths)

C5_Witness ==
    \E i \in PrefixedCalls :
        /\ calls[i].prefix_url = "/v1"
        /\ calls[i].path = "/items"
        /\ Len(spec_paths) = 1
        /\ spec_paths[1].path = "/v1/items"
        /\ routes = <<[path |-> "/v1/items", kwargs |-> kw(<<post, get>>)]>>
        /\ blueprint_routes = <<>>

\* C6 as stated: a route Q declared on a blueprint registered without a
\* prefix behaves as chalice_app.route(Q): no error from the missing prefix,
\* Q forwarded to the original.
C6_NoPrefixMeansEmptyPrefix ==
    \A i \in 1..Len(calls) :
        calls[i].fn = "inner_route" /\ calls[i].prefix_url = None =>
            /\ calls[i].result.type /= "TypeError"
            /\ ConversionRaised(calls[i]) \/ Len(calls[i].forwarded) = 1
            /\ \A k \in 1..Len(calls[i].forwarded) :
                  calls[i].forwarded[k].path = calls[i].path

\* C7: when init_spec raises for the missing chalice_app, the application
\* keeps its own route and register_blueprint, and no declaration made
\* afterwards passes through the plugin.
C7_FailedInstallMutatesNothing ==
    init_spec_result = "raised" =>
        /\ app_route = "original_route"
        /\ app_register_blueprint = "original_register_blueprint"
        /\ blueprint_route_fn.fn = "blueprint_original_route"
        /\ spec_paths = <<>>
        /\ \A i \in 1..Len(calls) :
              calls[i].fn \in {"original_route", "blueprint_original_route"}

C7_Witness ==
    /\ init_spec_result = "raised"
    /\ registered > 0
    /\ \E i, j \in 1..Len(calls) :
          calls[i].fn = "original_route" /\ calls[j].fn = "blueprint_original_route"

\* C8: when the original route function raises, the call of route raises the
\* same error, and the entry spec.path stored in that call is still in the
\* APISpec object.
C8_NoRollbackOnDelegationError ==
    \A i \in RouteCalls : \A k \in 1..Len(calls[i].forwarded) :
        calls[i].forwarded[k].outcome = "raised" =>
            /\ calls[i].outcome = "raised"
            /\ calls[i].result = calls[i].forwarded[k].result
            /\ Count(calls[i].events, "spec.path") = Len(calls[i].entries)
            /\ spec_paths = EntriesOf(calls)
            /\ \A e \in Range(calls[i].entries) : e \in Range(spec_paths)

C8_Witness ==
    \E i \in RouteCalls :
        /\ calls[i].outcome = "raised"
        /\ calls[i].result.type = "ChaliceError"
        /\ Len(calls[i].entries) = 1
        /\ calls[i].entries[1] \in Range(spec_paths)

\* Two declarations that differ at most in the letter case of their methods.
SameUpToCase(c, d) ==
    /\ c.fn = d.fn
    /\ c.prefix_url = d.prefix_url
    /\ c.path = d.path
    /\ DOMAIN c.kwargs = DOMAIN d.kwargs
    /\ \A key \in DOMAIN c.kwargs \ {"methods"} : c.kwargs[key] = d.kwargs[key]
    /\ Len(Declared(c)) = Len(Declared(d))
    /\ \A k \in 1..Len(Declared(c)) : lower(Declared(c)[k]) = lower(Declared(d)[k])

\* C9: two calls of route that differ only in the letter case of the method
\* names add the same entries, and every method name stored in the APISpec
\* object or looked up in a descriptor is lower case.
C9_CaseInsensitiveMethods ==
    /\ \A i, j \in RouteCalls :
          SameUpToCase(calls[i], calls[j]) => calls[i].entries = calls[j].entries
    /\ \A k \in 1..Len(spec_paths) : \A m \in DOMAIN spec_paths[k].operations :
          lower(m) = m
    /\ \A i \in RouteCalls :
          "docs" \notin DOMAIN calls[i].kwargs /\ calls[i].docs /= NoDocs =>
              \A m \in DOMAIN calls[i].docs.ops : lower(m) = m

C9_Witness ==
    \E i, j \in RouteCalls :
        /\ Declared(calls[i]) = <<<<"P","O","S","T">>, <<"G","e","t">>>>
        /\ Declared(calls[j]) = <<post, get>>
        /\ SameUpToCase(calls[i], calls[j])
        /\ Len(calls[i].entries) = 1
        /\ calls[i].entries = calls[j].entries

\* C10: once init_spec has returned, spec.options has no chalice_app and the
\* application's route and register_blueprint are the plugin's wrappers, in
\* every later state.
C10_InstalledForGood ==
    init_spec_result = "returned" =>
        /\ "chalice_app" \notin spec_options
        /\ app_route = "route"
        /\ app_register_blueprint = "register_blueprint"
        /\ \A i \in 1..Len(calls) : calls[i].fn \in {"route", "inner_route"}
                                    \/ calls[i].fn = "blueprint_original_route"

C10_Witness ==
    /\ init_spec_result = "returned"
    /\ registered > 0
    /\ \E i, j \in 1..Len(calls) :
          calls[i].fn = "route" /\ calls[j].fn = "inner_route"

====
